---- MODULE Spec2Model ----
(***************************************************************************)
(* MicroDocs: the notes API (Create = POST /api/notes, Read = GET and      *)
(* Update = PUT /api/notes/[slug], History-read = GET .../history) over a  *)
(* MongoDB collection, and the restore flow of the history page.           *)
(*                                                                         *)
(* Strings are sequences of one-character strings, so that trimming,       *)
(* splitting and normalising are computed as the code computes them.       *)
(* Every await of a handler that reaches the store is one atomic step;     *)
(* the steps of different requests interleave freely.                      *)
(***************************************************************************)
EXTENDS Integers, Sequences, FiniteSets, TLC

(* ------------------------------ bounds -------------------------------- *)
\* The clock runs from 0 to MaxTime.
MaxTime == 1
\* The collection holds at most MaxNotes documents.
MaxNotes == 2
\* An Update is started only while the note has fewer than MaxHist revisions.
MaxHist == 3
\* At most MaxInFlight Creates and Updates are in flight at a time.
MaxInFlight == 2
\* The collection of the specification of sequential Creates holds at most
\* MaxSeqNotes documents.
MaxSeqNotes == 3
\* The clock of the specification of the clock runs from 0 to MaxClock.
MaxClock == 2
\* The specification of the limiters lets the clock advance MaxElapses
\* times and sends at most MaxChecks requests.
MaxElapses == 3
MaxChecks == 7

(* --------------------------- JavaScript strings ------------------------ *)
\* !x for a string (or undefined) x: the empty string and undefined are falsy.
Falsy(s) == s = <<>>
Truthy(s) == s # <<>>

Whitespace == {" "}

RECURSIVE TrimStart(_)
TrimStart(s) ==
    IF s # <<>> /\ Head(s) \in Whitespace THEN TrimStart(Tail(s)) ELSE s

RECURSIVE TrimEnd(_)
TrimEnd(s) ==
    IF s # <<>> /\ s[Len(s)] \in Whitespace
    THEN TrimEnd(SubSeq(s, 1, Len(s) - 1)) ELSE s

\* String.prototype.trim
Trim(s) == TrimEnd(TrimStart(s))

UpperChars == <<"A", "B", "T">>
LowerChars == <<"a", "b", "t">>

\* String.prototype.toLowerCase, on the letters of the model's alphabet
ToLowerCase(s) ==
    [i \in 1..Len(s) |->
        IF \E k \in 1..Len(UpperChars) : UpperChars[k] = s[i]
        THEN LowerChars[CHOOSE k \in 1..Len(UpperChars) : UpperChars[k] = s[i]]
        ELSE s[i]]

\* replace(/\s+/g, '-'): every maximal run of whitespace becomes one hyphen
RECURSIVE ReplaceWhitespaceRuns(_)
ReplaceWhitespaceRuns(s) ==
    IF s = <<>> THEN <<>>
    ELSE IF Head(s) \in Whitespace
         THEN <<"-">> \o ReplaceWhitespaceRuns(TrimStart(s))
         ELSE <<Head(s)>> \o ReplaceWhitespaceRuns(Tail(s))

SlugChars ==
    {"a", "b", "c", "d", "e", "f", "g", "h", "i", "j", "k", "l", "m", "n", "o",
     "p", "q", "r", "s", "t", "u", "v", "w", "x", "y", "z",
     "0", "1", "2", "3", "4", "5", "6", "7", "8", "9", "-"}

\* replace(/[^a-z0-9-]/g, '')
StripNonSlugChars(s) == SelectSeq(s, LAMBDA c : c \in SlugChars)

MaxSlugLength == 50

\* substring(0, 50) when longer than 50
Truncate(s) ==
    IF Len(s) > MaxSlugLength THEN SubSeq(s, 1, MaxSlugLength) ELSE s

\* The normalised base of generateUniqueSlug (undefined and null give '').
NormalizeSlug(proposed) ==
    LET base == ReplaceWhitespaceRuns(ToLowerCase(Trim(proposed)))
    IN  IF Truthy(base) THEN Truncate(StripNonSlugChars(base)) ELSE <<>>

\* nanoid(n): a random identifier of n characters.  The model draws the
\* identifiers made of one repeated character: random is that character.
Nanoid(n, random) == [i \in 1..n |-> random]

NANOID_SLUG_LENGTH == 8
SuffixLength == 4
MAX_ATTEMPTS == 5

(* ------------------------- external capabilities ----------------------- *)
\* bad-words: a text is profane when it holds a listed word; "#" stands
\* for a listed word.
IsProfane(text) == \E i \in 1..Len(text) : text[i] = "#"

\* bcrypt.hash / bcrypt.compare: the digest verifies exactly the plaintext
\* it was made from.
Undefined == [kind |-> "undefined"]
Null == [kind |-> "null"]
Hash(plaintext) == [kind |-> "hash", of |-> plaintext]
Compare(plaintext, digest) == digest.kind = "hash" /\ digest.of = plaintext

\* A Date value of a document or of a request body.
Date(t) == [kind |-> "date", t |-> t]
IsDate(d) == d.kind = "date"

(* ------------------------------- state --------------------------------- *)
VARIABLES
    now,        \* Date.now() / new Date(): the server clock
    notes,      \* db.collection('notes'): the documents in insertion order
    cpc, cloc,  \* per Create request in flight: position and locals
    upc, uloc,  \* per Update request in flight: position and locals
    response,   \* the HTTP response sent by the last step, if it sent one
    page,       \* the state of one NoteHistoryPage component in a browser
    rateLimitStore, \* per route file, the Map from ip to {count, lastReset}
    admissions  \* per route and ip, the time and the outcome of each limiter call

vars == <<now, notes, cpc, cloc, upc, uloc, response, page,
          rateLimitStore, admissions>>

\* Request slots: the requests that can be in flight at the same time.
Creators == {"c1", "c2"}
Updaters == {"u1", "u2"}

NoResponse == [op |-> "none"]
NoLocals == [kind |-> "undefined"]

(* ------------------------------ the store ------------------------------ *)
Slugs(coll) == {coll[i].slug : i \in 1..Len(coll)}

\* The index of the first document with this slug, 0 when there is none.
IndexOf(coll, slug) ==
    IF slug \in Slugs(coll)
    THEN CHOOSE i \in 1..Len(coll) :
            /\ coll[i].slug = slug
            /\ \A j \in 1..(i - 1) : coll[j].slug # slug
    ELSE 0

\* collection.findOne({ slug }): the first match, or null
FindOne(coll, slug) ==
    IF IndexOf(coll, slug) = 0 THEN Null ELSE coll[IndexOf(coll, slug)]

\* Mutant of InsertOne: a unique index on slug refuses the second document.
InsertOneUnique(coll, doc) ==
    IF IndexOf(coll, doc.slug) = 0 THEN Append(coll, doc) ELSE coll

\* collection.insertOne(doc)
InsertOne(coll, doc) == Append(coll, doc)

\* Mutants of ApplyUpdateDoc: $push replacing the history, $set leaving the
\* content, and $set leaving expiresAt.
ApplyUpdateDocBase(doc, updateDoc) ==
    [doc EXCEPT
        !.title = updateDoc.set.title,
        !.content = updateDoc.set.content,
        !.updatedAt = updateDoc.set.updatedAt,
        !.passwordHash =
            IF updateDoc.set.passwordHash = Undefined THEN @
            ELSE updateDoc.set.passwordHash,
        !.expiresAt =
            IF updateDoc.set.expiresAt = Undefined THEN @
            ELSE updateDoc.set.expiresAt,
        !.history =
            IF updateDoc.push = Undefined THEN @
            ELSE Append(@, updateDoc.push)]

ApplyUpdateDocReplacingHistory(doc, updateDoc) ==
    [ApplyUpdateDocBase(doc, updateDoc) EXCEPT
        !.history = IF updateDoc.push = Undefined THEN doc.history
                    ELSE <<updateDoc.push>>]

ApplyUpdateDocKeepingContent(doc, updateDoc) ==
    [ApplyUpdateDocBase(doc, updateDoc) EXCEPT !.content = doc.content]

ApplyUpdateDocKeepingExpiry(doc, updateDoc) ==
    [ApplyUpdateDocBase(doc, updateDoc) EXCEPT !.expiresAt = doc.expiresAt]

\* Mutants of ApplyUpdateDoc: $push skipped when the document already
\* holds the pushed content, and a revision appended by the store whenever
\* $set changes the content.
ApplyUpdateDocSkippingEqual(doc, updateDoc) ==
    [ApplyUpdateDocBase(doc, updateDoc) EXCEPT
        !.history =
            IF updateDoc.push = Undefined \/ updateDoc.push.content = doc.content
            THEN doc.history
            ELSE Append(doc.history, updateDoc.push)]

ApplyUpdateDocPushingChange(doc, updateDoc) ==
    [ApplyUpdateDocBase(doc, updateDoc) EXCEPT
        !.history =
            IF updateDoc.push # Undefined THEN Append(doc.history, updateDoc.push)
            ELSE IF updateDoc.set.content # doc.content
            THEN Append(doc.history,
                        [content |-> updateDoc.set.content,
                         timestamp |-> updateDoc.set.updatedAt])
            ELSE doc.history]

\* Mutant of ApplyUpdateDoc: $set writes passwordHash also when the update
\* document holds none.
ApplyUpdateDocClearingPassword(doc, updateDoc) ==
    [ApplyUpdateDocBase(doc, updateDoc) EXCEPT
        !.passwordHash = updateDoc.set.passwordHash]

\* One document after $set and $push of an update document.
ApplyUpdateDoc(doc, updateDoc) ==
    [doc EXCEPT
        !.title = updateDoc.set.title,
        !.content = updateDoc.set.content,
        !.updatedAt = updateDoc.set.updatedAt,
        !.passwordHash =
            IF updateDoc.set.passwordHash = Undefined THEN @
            ELSE updateDoc.set.passwordHash,
        !.expiresAt =
            IF updateDoc.set.expiresAt = Undefined THEN @
            ELSE updateDoc.set.expiresAt,
        !.history =
            IF updateDoc.push = Undefined THEN @
            ELSE Append(@, updateDoc.push)]

\* collection.updateOne({ slug }, updateDoc): the first match is replaced
\* in one step; a collection without a match is left as it is.
UpdateOne(coll, slug, updateDoc) ==
    IF IndexOf(coll, slug) = 0 THEN coll
    ELSE [coll EXCEPT ![IndexOf(coll, slug)] = ApplyUpdateDoc(@, updateDoc)]

MatchedCount(coll, slug) == IF IndexOf(coll, slug) = 0 THEN 0 ELSE 1

ModifiedCount(coll, slug, updateDoc) ==
    IF UpdateOne(coll, slug, updateDoc) = coll THEN 0 ELSE 1

\* note.expiresAt && note.expiresAt <= new Date()
Expired(note, t) == IsDate(note.expiresAt) /\ note.expiresAt.t <= t

(* -------------------------------- clock -------------------------------- *)
Tick ==
    /\ now' = now + 1
    /\ UNCHANGED <<notes, cpc, cloc, upc, uloc>>

(* ---------------------------- rate limiting ---------------------------- *)
\* The three route files, each with a rateLimitStore of its own: POST of
\* api/notes, GET and PUT of api/notes/[slug], GET of the history route.
Routes == {"notes", "slug", "history"}

\* req.ip || x-forwarded-for || 'anonymous': the keys of the Maps
Ips == {"anonymous", "10.0.0.1"}

WINDOW_SIZE_MS == 60 * 1000

MAX_REQUESTS_PER_WINDOW(route) == IF route = "notes" THEN 5 ELSE 10

\* The limiter's lines up to rateLimitStore.set, run at time t on the Map
\* of one route: the entry of ip is reset when its window has passed, and
\* counted up.
ApplyRateLimitProlonging(store, ip, t) ==
    LET found ==
            IF store[ip] = Undefined THEN [count |-> 0, lastReset |-> t]
            ELSE store[ip]
        clientData ==
            IF t - found.lastReset > WINDOW_SIZE_MS
            THEN [count |-> 0, lastReset |-> t]
            ELSE [found EXCEPT !.lastReset = IF found.count >= 5 THEN t ELSE @]
    IN  [store EXCEPT ![ip] = [clientData EXCEPT !.count = @ + 1]]

ApplyRateLimit(store, ip, t) ==
    LET found ==
            IF store[ip] = Undefined THEN [count |-> 0, lastReset |-> t]
            ELSE store[ip]
        clientData ==
            IF t - found.lastReset > WINDOW_SIZE_MS
            THEN [count |-> 0, lastReset |-> t]
            ELSE found
    IN  [store EXCEPT ![ip] = [clientData EXCEPT !.count = @ + 1]]

\* The limiter lets the request through: count > MAX_REQUESTS_PER_WINDOW
\* does not hold after the count.
Admits(store, ip, t, route) ==
    ApplyRateLimit(store, ip, t)[ip].count <= MAX_REQUESTS_PER_WINDOW(route)

\* Math.ceil((clientData.lastReset + WINDOW_SIZE_MS - now) / 1000), the
\* value of the Retry-After header of a 429 sent at time t.
TimeLeft(store, ip, t) ==
    LET ms == ApplyRateLimit(store, ip, t)[ip].lastReset + WINDOW_SIZE_MS - t
    IN  IF ms % 1000 = 0 THEN ms \div 1000 ELSE ms \div 1000 + 1

\* The limiter call of a request of ip to a route at the current time.
Limit(route, ip) ==
    /\ rateLimitStore' =
            [rateLimitStore EXCEPT ![route] = ApplyRateLimit(@, ip, now)]
    /\ admissions' =
            [admissions EXCEPT ![route][ip] =
                Append(@, [at |-> now,
                           admitted |-> Admits(rateLimitStore[route], ip, now, route),
                           retryAfter |->
                                IF Admits(rateLimitStore[route], ip, now, route)
                                THEN Undefined
                                ELSE TimeLeft(rateLimitStore[route], ip, now)])]

\* The number of limiter calls so far.
Checks ==
    LET RECURSIVE Sum(_)
        Sum(S) == IF S = {} THEN 0
                  ELSE LET x == CHOOSE x \in S : TRUE
                       IN  Len(admissions[x[1]][x[2]]) + Sum(S \ {x})
    IN  Sum(Routes \X Ips)

\* Half a window passes.
Elapse ==
    /\ now' = now + WINDOW_SIZE_MS \div 2
    /\ UNCHANGED <<notes, cpc, cloc, upc, uloc>>

\* The limiter of a route either admits a request or answers 429 before the
\* handler reads anything else.
RateLimited(op) == [op |-> op, status |-> 429, message |-> "Too many requests"]

(* ------------------------ Create: POST /api/notes ---------------------- *)
\* customSlug || title
Proposed(body) == IF Truthy(body.customSlug) THEN body.customSlug ELSE body.title

\* Mutant of CurrentSlug: the suffix is added in the first pass too.
CurrentSlugAlwaysSuffixed(baseSlug, attempts, random) ==
    IF Truthy(baseSlug)
    THEN baseSlug \o <<"-">> \o Nanoid(SuffixLength, random)
    ELSE Nanoid(NANOID_SLUG_LENGTH, random)

\* The candidate of one pass of the bounded loop of generateUniqueSlug.
CurrentSlug(baseSlug, attempts, random) ==
    IF Truthy(baseSlug) /\ attempts > 0
    THEN baseSlug \o <<"-">> \o Nanoid(SuffixLength, random)
    ELSE IF Falsy(baseSlug) THEN Nanoid(NANOID_SLUG_LENGTH, random)
    ELSE baseSlug

\* Mutant of NewNote: the document is built with an empty history.
NewNoteWithoutRevision(body, finalSlug, noteCreationTime) ==
    LET newNote ==
            [slug |-> finalSlug,
             title |-> body.title,
             content |-> body.content,
             passwordHash |->
                IF Truthy(body.password) THEN Hash(body.password) ELSE Undefined,
             createdAt |-> noteCreationTime,
             updatedAt |-> noteCreationTime,
             expiresAt |-> Undefined,
             history |-> <<>>]
    IN  IF IsDate(body.expiresAt)
        THEN IF body.expiresAt.t > noteCreationTime
             THEN [newNote EXCEPT !.expiresAt = body.expiresAt]
             ELSE Undefined
        ELSE newNote

\* The document POST builds, or Undefined when expiresAt is rejected.
NewNote(body, finalSlug, noteCreationTime) ==
    LET newNote ==
            [slug |-> finalSlug,
             title |-> body.title,
             content |-> body.content,
             passwordHash |->
                IF Truthy(body.password) THEN Hash(body.password) ELSE Undefined,
             createdAt |-> noteCreationTime,
             updatedAt |-> noteCreationTime,
             expiresAt |-> Undefined,
             history |->
                <<[content |-> body.content, timestamp |-> noteCreationTime]>>]
    IN  IF IsDate(body.expiresAt)
        THEN IF body.expiresAt.t > noteCreationTime
             THEN [newNote EXCEPT !.expiresAt = body.expiresAt]
             ELSE Undefined
        ELSE newNote

CreateResponse(body, status, message, slug) ==
    [op |-> "Create", status |-> status, message |-> message,
     title |-> body.title, content |-> body.content, slug |-> slug]

\* The response of POST when it ends before generateUniqueSlug, else none.
CreateStartResponse(body, admitted) ==
    IF ~admitted THEN RateLimited("Create")
    ELSE IF Falsy(body.title) \/ Falsy(body.content)
    THEN CreateResponse(body, 400, "required", <<>>)
    ELSE IF IsProfane(body.title \o <<" ">> \o body.content)
    THEN CreateResponse(body, 400, "profanity", <<>>)
    ELSE NoResponse

\* POST up to the call of generateUniqueSlug.
CreateStart(c, body, admitted) ==
    /\ cpc[c] = "idle"
    /\ UNCHANGED <<now, notes, upc, uloc>>
    /\ IF CreateStartResponse(body, admitted) # NoResponse
       THEN UNCHANGED <<cpc, cloc>>
       ELSE /\ cpc' = [cpc EXCEPT ![c] = "alloc"]
            /\ cloc' = [cloc EXCEPT ![c] =
                    [body |-> body,
                     baseSlug |-> NormalizeSlug(Proposed(body)),
                     attempts |-> 0,
                     finalSlug |-> <<>>]]

\* Mutant of CreateAttempt: the candidate is taken without its findOne.
CreateAttemptUnchecked(c, random) ==
    /\ cpc[c] = "alloc"
    /\ cpc' = [cpc EXCEPT ![c] = "insert"]
    /\ cloc' = [cloc EXCEPT ![c].finalSlug =
            CurrentSlug(cloc[c].baseSlug, cloc[c].attempts, random)]
    /\ UNCHANGED <<now, notes, upc, uloc>>

\* One pass of the loop of lines 60-76: a candidate and its findOne.
CreateAttempt(c, random) ==
    /\ cpc[c] = "alloc"
    /\ LET currentSlug == CurrentSlug(cloc[c].baseSlug, cloc[c].attempts, random)
       IN IF FindOne(notes, currentSlug) = Null
          THEN /\ cpc' = [cpc EXCEPT ![c] = "insert"]
               /\ cloc' = [cloc EXCEPT ![c].finalSlug = currentSlug]
          ELSE /\ cpc' = [cpc EXCEPT ![c] =
                       IF cloc[c].attempts + 1 < MAX_ATTEMPTS
                       THEN "alloc" ELSE "fallback"]
               /\ cloc' = [cloc EXCEPT ![c].attempts = @ + 1]
    /\ UNCHANGED <<now, notes, upc, uloc>>

\* Mutant of CreateFallback: the loop never takes its identifier.
CreateFallbackSpinning(c, random) ==
    /\ cpc[c] = "fallback"
    /\ UNCHANGED <<cpc, cloc>>
    /\ UNCHANGED <<now, notes, upc, uloc>>

\* One pass of the fallback loop of lines 82-89.
CreateFallback(c, random) ==
    /\ cpc[c] = "fallback"
    /\ LET fallbackSlug == Nanoid(NANOID_SLUG_LENGTH, random)
       IN IF FindOne(notes, fallbackSlug) = Null
          THEN /\ cpc' = [cpc EXCEPT ![c] = "insert"]
               /\ cloc' = [cloc EXCEPT ![c].finalSlug = fallbackSlug]
          ELSE UNCHANGED <<cpc, cloc>>
    /\ UNCHANGED <<now, notes, upc, uloc>>

\* The response of POST after generateUniqueSlug returned.
CreateInsertResponse(loc, t) ==
    IF NewNote(loc.body, loc.finalSlug, t) = Undefined
    THEN CreateResponse(loc.body, 400, "future", <<>>)
    ELSE CreateResponse(loc.body, 201, "created", loc.finalSlug)

\* Mutant of CreateInsert: insertOne runs before the check of expiresAt.
CreateInsertBeforeCheck(c) ==
    /\ cpc[c] = "insert"
    /\ notes' =
          InsertOne(notes,
                    [NewNote([cloc[c].body EXCEPT !.expiresAt = Undefined],
                             cloc[c].finalSlug, now)
                        EXCEPT !.expiresAt = cloc[c].body.expiresAt])
    /\ cpc' = [cpc EXCEPT ![c] = "idle"]
    /\ cloc' = [cloc EXCEPT ![c] = NoLocals]
    /\ UNCHANGED <<now, upc, uloc>>

\* POST after generateUniqueSlug returned: hash, build, check, insertOne.
CreateInsert(c) ==
    /\ cpc[c] = "insert"
    /\ notes' =
          IF NewNote(cloc[c].body, cloc[c].finalSlug, now) = Undefined
          THEN notes
          ELSE InsertOne(notes, NewNote(cloc[c].body, cloc[c].finalSlug, now))
    /\ cpc' = [cpc EXCEPT ![c] = "idle"]
    /\ cloc' = [cloc EXCEPT ![c] = NoLocals]
    /\ UNCHANGED <<now, upc, uloc>>

(* ------------------------------ access gate ---------------------------- *)
\* String.prototype.split(' '): the pieces between the spaces
RECURSIVE FirstPiece(_)
FirstPiece(s) ==
    IF s = <<>> \/ Head(s) = " " THEN <<>> ELSE <<Head(s)>> \o FirstPiece(Tail(s))

RECURSIVE Split(_)
Split(s) ==
    LET piece == FirstPiece(s)
    IN  IF Len(piece) = Len(s) THEN <<piece>>
        ELSE <<piece>> \o Split(SubSeq(s, Len(piece) + 2, Len(s)))

\* The Authorization header the pages send: `Bearer ${passwordAttempt}`,
\* and no header for an empty password.
Bearer(password) ==
    IF Truthy(password)
    THEN <<"B", "e", "a", "r", "e", "r", " ">> \o password
    ELSE <<>>

\* authHeader?.split(' ')[1]; undefined (an absent header, or no second
\* piece) is the empty token.
Token(authHeader) ==
    IF authHeader = <<>> \/ Len(Split(authHeader)) < 2 THEN <<>>
    ELSE Split(authHeader)[2]

\* Lines 91-106 of GET (and 94-110 of the history route): "ok", or the
\* message of the 401 response.
GateOfGet(note, authHeader) ==
    IF note.passwordHash # Undefined
    THEN IF Falsy(Token(authHeader)) THEN "Password required."
         ELSE IF ~Compare(Token(authHeader), note.passwordHash)
              THEN "Invalid password."
              ELSE "ok"
    ELSE "ok"

(* ----------------------- Read: GET /api/notes/[slug] ------------------- *)
NoteResponse(note) ==
    [title |-> note.title,
     content |-> note.content,
     isProtected |-> note.passwordHash # Undefined,
     createdAt |-> note.createdAt,
     updatedAt |-> note.updatedAt,
     expiresAt |-> IF IsDate(note.expiresAt) THEN note.expiresAt ELSE Undefined]

GetResponse(op, slug, authHeader, status, message, body) ==
    [op |-> op, status |-> status, message |-> message,
     slug |-> slug, authHeader |-> authHeader, body |-> body]

\* Mutant of ReadResult: the access gate is consulted before the expiration.
ReadResultGateFirst(coll, t, slug, authHeader) ==
    LET note == FindOne(coll, slug)
    IN  IF note = Null
        THEN GetResponse("Read", slug, authHeader, 404, "Note not found.", Undefined)
        ELSE IF GateOfGet(note, authHeader) # "ok"
        THEN GetResponse("Read", slug, authHeader, 401,
                         GateOfGet(note, authHeader), Undefined)
        ELSE IF Expired(note, t)
        THEN GetResponse("Read", slug, authHeader, 404, "Note has expired.", Undefined)
        ELSE GetResponse("Read", slug, authHeader, 200, "ok", NoteResponse(note))

\* The response of GET for a request that passed the limiter.
ReadResult(coll, t, slug, authHeader) ==
    LET note == FindOne(coll, slug)
    IN  IF note = Null
        THEN GetResponse("Read", slug, authHeader, 404, "Note not found.", Undefined)
        ELSE IF Expired(note, t)
        THEN GetResponse("Read", slug, authHeader, 404, "Note has expired.", Undefined)
        ELSE IF GateOfGet(note, authHeader) # "ok"
        THEN GetResponse("Read", slug, authHeader, 401,
                         GateOfGet(note, authHeader), Undefined)
        ELSE GetResponse("Read", slug, authHeader, 200, "ok", NoteResponse(note))

ReadResponse(slug, authHeader, admitted) ==
    IF admitted THEN ReadResult(notes, now, slug, authHeader)
    ELSE RateLimited("Read")

\* GET changes nothing but the limiter's count.
Read(slug, authHeader, admitted) ==
    UNCHANGED <<now, notes, cpc, cloc, upc, uloc>>

(* ---------------- History-read: GET /api/notes/[slug]/history ---------- *)
HistoryResponse(note) ==
    [title |-> note.title,
     history |-> note.history,
     isProtected |-> note.passwordHash # Undefined]

HistoryResult(coll, t, slug, authHeader) ==
    LET note == FindOne(coll, slug)
    IN  IF note = Null
        THEN GetResponse("History", slug, authHeader, 404, "Note not found.", Undefined)
        ELSE IF Expired(note, t)
        THEN GetResponse("History", slug, authHeader, 404, "Note has expired.", Undefined)
        ELSE IF GateOfGet(note, authHeader) # "ok"
        THEN GetResponse("History", slug, authHeader, 401,
                         GateOfGet(note, authHeader), Undefined)
        ELSE GetResponse("History", slug, authHeader, 200, "ok", HistoryResponse(note))

HistoryReadResponse(slug, authHeader, admitted) ==
    IF admitted THEN HistoryResult(notes, now, slug, authHeader)
    ELSE RateLimited("History")

HistoryRead(slug, authHeader, admitted) ==
    UNCHANGED <<now, notes, cpc, cloc, upc, uloc>>

(* --------------------- Update: PUT /api/notes/[slug] ------------------- *)
UpdateResponse(slug, body, status, message) ==
    [op |-> "Update", status |-> status, message |-> message,
     slug |-> slug, body |-> body]

\* An outcome of a stretch of PUT between two awaits: the next position,
\* the locals, and the response when the stretch ends the request.
Outcome(pc, loc, resp) == [pc |-> pc, loc |-> loc, response |-> resp]

\* Mutant of PrepareExpiryAndPush: a revision pushed whenever anything
\* of the note is saved.
PrepareExpiryAndPushAlways(loc, t) ==
    LET directive == loc.body.expiresAt
        withExpiry ==
            IF directive = Null
            THEN [loc EXCEPT !.updateDoc.set.expiresAt = Null]
            ELSE IF IsDate(directive)
            THEN [loc EXCEPT !.updateDoc.set.expiresAt = directive]
            ELSE loc
        push == [content |-> loc.body.content, timestamp |-> t]
    IN  IF IsDate(directive) /\ directive.t <= t
        THEN Outcome("idle", NoLocals,
                     UpdateResponse(loc.slug, loc.body, 400, "future"))
        ELSE Outcome("write", [withExpiry EXCEPT !.updateDoc.push = push],
                     NoResponse)

\* Mutant of PrepareExpiryAndPush: a timestamp equal to the current time
\* is accepted.
PrepareExpiryAndPushAcceptingNow(loc, t) ==
    LET directive == loc.body.expiresAt
        withExpiry ==
            IF directive = Null
            THEN [loc EXCEPT !.updateDoc.set.expiresAt = Null]
            ELSE IF IsDate(directive)
            THEN [loc EXCEPT !.updateDoc.set.expiresAt = directive]
            ELSE loc
        push ==
            IF loc.note.content # loc.body.content
            THEN [content |-> loc.body.content, timestamp |-> t]
            ELSE Undefined
    IN  IF IsDate(directive) /\ directive.t < t
        THEN Outcome("idle", NoLocals,
                     UpdateResponse(loc.slug, loc.body, 400, "future"))
        ELSE Outcome("write", [withExpiry EXCEPT !.updateDoc.push = push],
                     NoResponse)

\* Mutant of PrepareExpiryAndPush: an explicit null is treated as an
\* absent expiresAt.
PrepareExpiryAndPushIgnoringNull(loc, t) ==
    LET directive == loc.body.expiresAt
        withExpiry ==
            IF IsDate(directive)
            THEN [loc EXCEPT !.updateDoc.set.expiresAt = directive]
            ELSE loc
        push ==
            IF loc.note.content # loc.body.content
            THEN [content |-> loc.body.content, timestamp |-> t]
            ELSE Undefined
    IN  IF IsDate(directive) /\ directive.t <= t
        THEN Outcome("idle", NoLocals,
                     UpdateResponse(loc.slug, loc.body, 400, "future"))
        ELSE Outcome("write", [withExpiry EXCEPT !.updateDoc.push = push],
                     NoResponse)

\* Lines 207-230, run at time t: the expiresAt directive and the $push.
PrepareExpiryAndPush(loc, t) ==
    LET directive == loc.body.expiresAt
        withExpiry ==
            IF directive = Null
            THEN [loc EXCEPT !.updateDoc.set.expiresAt = Null]
            ELSE IF IsDate(directive)
            THEN [loc EXCEPT !.updateDoc.set.expiresAt = directive]
            ELSE loc
        push ==
            IF loc.note.content # loc.body.content
            THEN [content |-> loc.body.content, timestamp |-> t]
            ELSE Undefined
    IN  IF IsDate(directive) /\ directive.t <= t
        THEN Outcome("idle", NoLocals,
                     UpdateResponse(loc.slug, loc.body, 400, "future"))
        ELSE Outcome("write", [withExpiry EXCEPT !.updateDoc.push = push],
                     NoResponse)

\* Lines 193-205, run at time t: $set of title, content and updatedAt, and
\* the await of bcrypt.hash when a new password is given.
PrepareSet(loc, t) ==
    LET withSet ==
            [loc EXCEPT !.updateDoc =
                [set |-> [title |-> loc.body.title,
                          content |-> loc.body.content,
                          updatedAt |-> t,
                          passwordHash |-> Undefined,
                          expiresAt |-> Undefined],
                 push |-> Undefined]]
    IN  IF Truthy(loc.body.newPassword)
        THEN Outcome("hash", withSet, NoResponse)
        ELSE PrepareExpiryAndPush(withSet, t)

\* Lines 152-191 up to the await of bcrypt.compare, run at time t on the
\* collection coll.
FetchAndCheck(coll, t, slug, body) ==
    LET note == FindOne(coll, slug)
        loc == [slug |-> slug, body |-> body, note |-> note,
                updateDoc |-> Undefined]
    IN  IF Falsy(body.title) \/ Falsy(body.content)
        THEN Outcome("idle", NoLocals, UpdateResponse(slug, body, 400, "required"))
        ELSE IF IsProfane(body.title \o <<" ">> \o body.content)
        THEN Outcome("idle", NoLocals, UpdateResponse(slug, body, 400, "profanity"))
        ELSE IF note = Null
        THEN Outcome("idle", NoLocals, UpdateResponse(slug, body, 404, "Note not found."))
        ELSE IF Expired(note, t)
        THEN Outcome("idle", NoLocals,
                     UpdateResponse(slug, body, 400, "Cannot update an expired note."))
        ELSE IF note.passwordHash # Undefined
        THEN IF Falsy(body.currentPassword)
             THEN Outcome("idle", NoLocals,
                          UpdateResponse(slug, body, 401, "Current password required."))
             ELSE Outcome("compare", loc, NoResponse)
        ELSE PrepareSet(loc, t)

Become(u, outcome) ==
    /\ upc' = [upc EXCEPT ![u] = outcome.pc]
    /\ uloc' = [uloc EXCEPT ![u] = outcome.loc]

\* PUT from its first line to its first await after findOne.
UpdateFetch(u, slug, body, admitted) ==
    /\ upc[u] = "idle"
    /\ IF admitted
       THEN Become(u, FetchAndCheck(notes, now, slug, body))
       ELSE UNCHANGED <<upc, uloc>>
    /\ UNCHANGED <<now, notes, cpc, cloc>>

UpdateFetchResponse(slug, body, admitted) ==
    IF admitted THEN FetchAndCheck(notes, now, slug, body).response
    ELSE RateLimited("Update")

\* Lines 187-205, run at time t when bcrypt.compare has resolved.
AfterCompare(loc, t) ==
    IF Compare(loc.body.currentPassword, loc.note.passwordHash)
    THEN PrepareSet(loc, t)
    ELSE Outcome("idle", NoLocals,
                 UpdateResponse(loc.slug, loc.body, 401, "Incorrect password."))

UpdateCompare(u) ==
    /\ upc[u] = "compare"
    /\ Become(u, AfterCompare(uloc[u], now))
    /\ UNCHANGED <<now, notes, cpc, cloc>>

\* Lines 204-230, run at time t when bcrypt.hash has resolved.
AfterHash(loc, t) ==
    PrepareExpiryAndPush(
        [loc EXCEPT !.updateDoc.set.passwordHash = Hash(loc.body.newPassword)], t)

UpdateHash(u) ==
    /\ upc[u] = "hash"
    /\ Become(u, AfterHash(uloc[u], now))
    /\ UNCHANGED <<now, notes, cpc, cloc>>

\* note.expiresAt?.toISOString() === expiresAt of line 242
SameExpiry(note, directive) ==
    IsDate(note.expiresAt) /\ IsDate(directive) /\ note.expiresAt.t = directive.t

\* The response of lines 238-246.
WriteResponse(coll, loc) ==
    IF MatchedCount(coll, loc.slug) = 0
    THEN UpdateResponse(loc.slug, loc.body, 404, "Note not found for update.")
    ELSE IF /\ ModifiedCount(coll, loc.slug, loc.updateDoc) = 0
            /\ loc.note.content = loc.body.content
            /\ Falsy(loc.body.newPassword)
            /\ (loc.body.expiresAt = Undefined
                    \/ SameExpiry(loc.note, loc.body.expiresAt))
    THEN UpdateResponse(loc.slug, loc.body, 200, "No changes detected to update.")
    ELSE UpdateResponse(loc.slug, loc.body, 200, "Note updated successfully!")

\* updateOne of lines 233-236 and the response.
UpdateWrite(u) ==
    /\ upc[u] = "write"
    /\ notes' = UpdateOne(notes, uloc[u].slug, uloc[u].updateDoc)
    /\ upc' = [upc EXCEPT ![u] = "idle"]
    /\ uloc' = [uloc EXCEPT ![u] = NoLocals]
    /\ UNCHANGED <<now, cpc, cloc>>

(* ------------------------------- requests ------------------------------ *)
\* The bodies and headers the clients send.
CreateBody(title, content, password, customSlug, expiresAt) ==
    [title |-> title, content |-> content, password |-> password,
     customSlug |-> customSlug, expiresAt |-> expiresAt]

UpdateBody(title, content, currentPassword, newPassword, expiresAt) ==
    [title |-> title, content |-> content, currentPassword |-> currentPassword,
     newPassword |-> newPassword, expiresAt |-> expiresAt]

AuthHeaders(In) == {Bearer(password) : password \in In.readPasswords}

(* ------ the history page: src/app/notes/[slug]/history/page.tsx -------- *)
\* The state of the component before it is mounted: the useState values of
\* lines 91-114, the slug of useParams, the password the fetches in flight
\* carry, the PUT in flight and the timer of the redirect.
UseState ==
    [mounted |-> FALSE,
     slug |-> <<>>,
     noteHistory |-> Null,
     loading |-> TRUE,
     fetchError |-> FALSE,
     currentNote |-> Null,
     loadingCurrentNote |-> TRUE,
     currentNoteError |-> FALSE,
     passwordRequired |-> FALSE,
     enteredPassword |-> <<>>,
     isRestoring |-> FALSE,
     restoreError |-> FALSE,
     restorePasswordPrompt |-> FALSE,
     restorePassword |-> <<>>,
     restoreContent |-> <<>>,
     restoreIndex |-> Null,
     passwordAttempt |-> <<>>,
     put |-> Null,
     redirect |-> FALSE]

\* The effect of lines 213-219: both fetches start, without a password.
Mount(slug) ==
    /\ ~page.mounted
    /\ page' = [UseState EXCEPT !.mounted = TRUE, !.slug = slug]
    /\ UNCHANGED <<now, notes, cpc, cloc, upc, uloc>>

\* The state when fetchNoteHistory and fetchCurrentNote are called again.
Refetching(p, passwordAttempt) ==
    [p EXCEPT !.loading = TRUE, !.fetchError = FALSE,
              !.passwordRequired = FALSE, !.restoreError = FALSE,
              !.loadingCurrentNote = TRUE, !.currentNoteError = FALSE,
              !.passwordAttempt = passwordAttempt]

\* What follows the await of Promise.all in handleConfirmRestore: the
\* redirect is scheduled and isRestoring is reset.
AfterFetches(p) ==
    IF p.isRestoring /\ ~p.loading /\ ~p.loadingCurrentNote
    THEN [p EXCEPT !.isRestoring = FALSE, !.redirect = TRUE]
    ELSE p

\* fetchNoteHistory from the response of its GET.
NoteHistoryFetched(admitted) ==
    /\ page.mounted /\ page.loading
    /\ LET r == HistoryReadResponse(page.slug, Bearer(page.passwordAttempt),
                                    admitted)
       IN page' = AfterFetches(
            IF r.status = 200
            THEN [page EXCEPT !.noteHistory = r.body,
                              !.passwordRequired = FALSE, !.loading = FALSE]
            ELSE IF r.status = 401
            THEN [page EXCEPT !.noteHistory = Null,
                              !.passwordRequired = TRUE, !.loading = FALSE]
            ELSE [page EXCEPT !.noteHistory = Null,
                              !.fetchError = TRUE, !.loading = FALSE])
    /\ UNCHANGED <<now, notes, cpc, cloc, upc, uloc>>

\* fetchCurrentNote from the response of its GET.
CurrentNoteFetched(admitted) ==
    /\ page.mounted /\ page.loadingCurrentNote
    /\ LET r == ReadResponse(page.slug, Bearer(page.passwordAttempt), admitted)
       IN page' = AfterFetches(
            IF r.status = 200
            THEN [page EXCEPT !.currentNote = r.body,
                              !.loadingCurrentNote = FALSE]
            ELSE [page EXCEPT !.currentNote = Null,
                              !.currentNoteError = TRUE,
                              !.loadingCurrentNote = FALSE])
    /\ UNCHANGED <<now, notes, cpc, cloc, upc, uloc>>

\* The list of revisions with their Restore buttons is rendered: lines
\* 311-339 return another screen while loading, after an error of either
\* fetch, and while the password is required.
ListRendered ==
    /\ page.mounted
    /\ ~(page.loading \/ page.loadingCurrentNote)
    /\ ~(page.fetchError \/ page.currentNoteError)
    /\ ~(page.passwordRequired /\ page.noteHistory = Null)

RECURSIVE Reverse(_)
Reverse(s) == IF s = <<>> THEN <<>> ELSE Reverse(Tail(s)) \o <<Head(s)>>

\* noteHistory?.history.slice().reverse() || []
ReversedHistory(p) ==
    IF p.noteHistory = Null THEN <<>> ELSE Reverse(p.noteHistory.history)

IsProtected(p) == p.noteHistory # Null /\ p.noteHistory.isProtected

\* handleConfirmRestore up to the await of its fetch.  It reads the values
\* of the render that created it and queues its updates on the state the
\* calls before it have queued.
ConfirmRestore(render, queued) ==
    IF IsProtected(render) /\ Falsy(render.restorePassword)
    THEN [queued EXCEPT !.restoreError = TRUE, !.isRestoring = FALSE]
    ELSE IF render.currentNote = Null \/ Falsy(render.currentNote.title)
    THEN [queued EXCEPT !.restoreError = TRUE, !.isRestoring = FALSE]
    ELSE [queued EXCEPT
            !.isRestoring = TRUE,
            !.restoreError = FALSE,
            !.put =
                [body |->
                    UpdateBody(
                        render.currentNote.title,
                        render.restoreContent,
                        IF IsProtected(render)
                        THEN IF Truthy(render.restorePassword)
                             THEN render.restorePassword
                             ELSE render.enteredPassword
                        ELSE <<>>,
                        <<>>,
                        Undefined),
                 handler |-> "none"]]

\* handleRestoreClick(entry.content, index) of the button of line 533.
HandleRestoreClick(index) ==
    /\ ListRendered /\ ~page.isRestoring
    /\ index + 1 \in 1..Len(ReversedHistory(page))
    /\ LET queued ==
            [page EXCEPT
                !.restoreContent = ReversedHistory(page)[index + 1].content,
                !.restoreIndex = index,
                !.restoreError = FALSE]
       IN page' = IF IsProtected(page)
                  THEN [queued EXCEPT !.restorePasswordPrompt = TRUE]
                  ELSE ConfirmRestore(page, queued)
    /\ UNCHANGED <<now, notes, cpc, cloc, upc, uloc>>

\* handleConfirmRestore from the response of its PUT.
Settled(p, r) ==
    IF r.status = 200
    THEN Refetching(
            [p EXCEPT !.put = Null, !.restorePasswordPrompt = FALSE,
                      !.restorePassword = <<>>],
            IF Truthy(p.enteredPassword) THEN p.enteredPassword
            ELSE p.restorePassword)
    ELSE [p EXCEPT !.put = Null, !.restoreError = TRUE, !.isRestoring = FALSE]

\* The PUT of the page reaches the route: the Update request u handles it.
PutArrives(u, admitted) ==
    /\ page.put # Null /\ page.put.handler = "none"
    /\ UpdateFetch(u, page.slug, page.put.body, admitted)
    /\ page' =
        IF UpdateFetchResponse(page.slug, page.put.body, admitted) = NoResponse
        THEN [page EXCEPT !.put.handler = u]
        ELSE Settled(page, UpdateFetchResponse(page.slug, page.put.body, admitted))

\* The response r of the Update request u reaches the page that sent it.
Deliver(u, r) ==
    page' = IF page.put # Null /\ page.put.handler = u /\ r # NoResponse
            THEN Settled(page, r)
            ELSE page

\* setTimeout(() => router.push(`/notes/${slug}`), 2000): the page is left.
RouterPush ==
    /\ page.mounted /\ page.redirect
    /\ page' = UseState
    /\ UNCHANGED <<now, notes, cpc, cloc, upc, uloc>>

Init ==
    /\ now = 0
    /\ notes = <<>>
    /\ cpc = [c \in Creators |-> "idle"]
    /\ cloc = [c \in Creators |-> NoLocals]
    /\ upc = [u \in Updaters |-> "idle"]
    /\ uloc = [u \in Updaters |-> NoLocals]
    /\ response = NoResponse
    /\ page = UseState
    /\ rateLimitStore = [route \in Routes |-> [ip \in Ips |-> Undefined]]
    /\ admissions = [route \in Routes |-> [ip \in Ips |-> <<>>]]

\* The response a step sends; a specification that does not observe the
\* responses keeps none of them.
Respond(In, r) == response' = IF In.observe THEN r ELSE NoResponse

\* The bounds of a specification: the clock stops at maxTime, no Create
\* starts that could make the collection longer than maxNotes, no Update
\* starts on a note that has maxHist revisions, and no request starts
\* while maxInFlight Creates and Updates are between two of their steps.
InFlight ==
    Cardinality({c \in Creators : cpc[c] # "idle"})
        + Cardinality({u \in Updaters : upc[u] # "idle"})

RoomForNote(In) ==
    Len(notes) + Cardinality({c \in Creators : cpc[c] # "idle"}) < In.maxNotes

RoomForRevision(In, slug) ==
    FindOne(notes, slug) # Null => Len(FindOne(notes, slug).history) < In.maxHist

NextWith(In) ==
    \/ /\ now < In.maxTime /\ Tick /\ Respond(In, NoResponse)
       /\ UNCHANGED <<page, rateLimitStore, admissions>>
    \/ \E c \in In.creators, body \in In.createBodies, admitted \in BOOLEAN :
            /\ RoomForNote(In) /\ InFlight < In.maxInFlight
            /\ CreateStart(c, body, admitted)
            /\ Respond(In, CreateStartResponse(body, admitted))
            /\ UNCHANGED <<page, rateLimitStore, admissions>>
    \/ \E c \in In.creators, random \in In.idChars :
            /\ CreateAttempt(c, random) /\ Respond(In, NoResponse)
            /\ UNCHANGED <<page, rateLimitStore, admissions>>
    \/ \E c \in In.creators, random \in In.idChars :
            /\ CreateFallback(c, random) /\ Respond(In, NoResponse)
            /\ UNCHANGED <<page, rateLimitStore, admissions>>
    \/ \E c \in In.creators :
            /\ CreateInsert(c)
            /\ Respond(In, CreateInsertResponse(cloc[c], now))
            /\ UNCHANGED <<page, rateLimitStore, admissions>>
    \/ \E slug \in In.slugs, authHeader \in AuthHeaders(In), admitted \in BOOLEAN :
            /\ Read(slug, authHeader, admitted)
            /\ Respond(In, ReadResponse(slug, authHeader, admitted))
            /\ UNCHANGED <<page, rateLimitStore, admissions>>
    \/ \E slug \in In.slugs, authHeader \in AuthHeaders(In), admitted \in BOOLEAN :
            /\ HistoryRead(slug, authHeader, admitted)
            /\ Respond(In, HistoryReadResponse(slug, authHeader, admitted))
            /\ UNCHANGED <<page, rateLimitStore, admissions>>
    \/ \E u \in In.updaters, slug \in In.slugs, admitted \in BOOLEAN :
          \E body \in In.updateBodies[u] :
            /\ RoomForRevision(In, slug) /\ InFlight < In.maxInFlight
            /\ UpdateFetch(u, slug, body, admitted)
            /\ Respond(In, UpdateFetchResponse(slug, body, admitted))
            /\ UNCHANGED <<page, rateLimitStore, admissions>>
    \/ \E u \in In.updaters :
            /\ UpdateCompare(u)
            /\ Respond(In, AfterCompare(uloc[u], now).response)
            /\ Deliver(u, AfterCompare(uloc[u], now).response)
            /\ UNCHANGED <<rateLimitStore, admissions>>
    \/ \E u \in In.updaters :
            /\ UpdateHash(u)
            /\ Respond(In, AfterHash(uloc[u], now).response)
            /\ Deliver(u, AfterHash(uloc[u], now).response)
            /\ UNCHANGED <<rateLimitStore, admissions>>
    \/ \E u \in In.updaters :
            /\ UpdateWrite(u)
            /\ Respond(In, WriteResponse(notes, uloc[u]))
            /\ Deliver(u, WriteResponse(notes, uloc[u]))
            /\ UNCHANGED <<rateLimitStore, admissions>>

\* The steps of a specification with a history page open on the slug of
\* In.pageSlugs.  The forms of the page (the password of lines 349-375 and
\* the restore prompt of lines 412-470) are rendered only after a history
\* fetch that carried a password, and no fetch of a mounted page does before
\* one of the forms is submitted: their handlers have no step.
NextPage(In) ==
    \/ NextWith(In)
    \/ \E slug \in In.pageSlugs :
            Mount(slug) /\ Respond(In, NoResponse) /\ UNCHANGED <<rateLimitStore, admissions>>
    \/ \E admitted \in BOOLEAN :
            /\ NoteHistoryFetched(admitted)
            /\ Respond(In, HistoryReadResponse(page.slug,
                                Bearer(page.passwordAttempt), admitted))
            /\ UNCHANGED <<rateLimitStore, admissions>>
    \/ \E admitted \in BOOLEAN :
            /\ CurrentNoteFetched(admitted)
            /\ Respond(In, ReadResponse(page.slug,
                                Bearer(page.passwordAttempt), admitted))
            /\ UNCHANGED <<rateLimitStore, admissions>>
    \/ \E index \in 0..(In.maxHist - 1) :
            /\ HandleRestoreClick(index) /\ Respond(In, NoResponse)
            /\ UNCHANGED <<rateLimitStore, admissions>>
    \/ \E u \in In.updaters, admitted \in BOOLEAN :
            /\ RoomForRevision(In, page.slug) /\ InFlight < In.maxInFlight
            /\ PutArrives(u, admitted)
            /\ Respond(In, UpdateFetchResponse(page.slug, page.put.body, admitted))
            /\ UNCHANGED <<rateLimitStore, admissions>>
    \/ RouterPush /\ Respond(In, NoResponse) /\ UNCHANGED <<rateLimitStore, admissions>>

\* The requests of the main specification: public notes "T" with content A
\* and the custom slug "!", which normalises to nothing, so that the slug
\* is a random identifier; u1 saves content, title, password and expiration changes, u2 saves
\* contents; both interleave.
ContentSaves ==
    {UpdateBody(<<"T">>, content, currentPassword, <<>>, Undefined) :
        content \in {<<"A">>, <<"B">>}, currentPassword \in {<<>>, <<"n">>}}

MetadataSaves ==
    {UpdateBody(<<"U">>, <<"A">>, <<>>, <<>>, Undefined),
     UpdateBody(<<"T">>, <<"A">>, <<>>, <<"n">>, Undefined),
     UpdateBody(<<"T">>, <<"A">>, <<>>, <<>>, Null),
     UpdateBody(<<"T">>, <<"B">>, <<>>, <<>>, Date(2))}

MainInputs ==
    [creators |-> {"c1"},
     updaters |-> {"u1", "u2"},
     observe |-> FALSE,
     maxTime |-> MaxTime,
     maxNotes |-> MaxNotes,
     maxHist |-> MaxHist,
     maxInFlight |-> MaxInFlight,
     idChars |-> {"x"},
     createBodies |-> {CreateBody(<<"T">>, <<"A">>, <<>>, <<"!">>, Undefined)},
     updateBodies |->
        [u \in Updaters |->
            IF u = "u1" THEN ContentSaves \cup MetadataSaves
            ELSE {body \in ContentSaves : body.currentPassword = <<>>}],
     readPasswords |-> {<<>>, <<"n">>},
     slugs |-> {Nanoid(NANOID_SLUG_LENGTH, "x"), <<"z">>}]

Next == NextWith(MainInputs)

Spec == Init /\ [][Next]_vars

\* The requests of the specification of the history page: a public note
\* with a random slug, an API client that saves another content, sets a
\* password and saves with it, and one history page open on that slug.
PageSaves ==
    {UpdateBody(<<"T">>, <<"B">>, <<>>, <<>>, Undefined),
     UpdateBody(<<"T">>, <<"B">>, <<>>, <<"n">>, Undefined),
     UpdateBody(<<"T">>, <<"B">>, <<"n">>, <<>>, Undefined)}

PageInputs ==
    [creators |-> {"c1"},
     updaters |-> {"u1"},
     observe |-> FALSE,
     maxTime |-> MaxTime,
     maxNotes |-> MaxNotes,
     maxHist |-> MaxHist,
     maxInFlight |-> MaxInFlight,
     idChars |-> {"x"},
     createBodies |-> {CreateBody(<<"T">>, <<"A">>, <<>>, <<"!">>, Undefined)},
     updateBodies |-> [u \in Updaters |-> PageSaves],
     readPasswords |-> {<<>>},
     slugs |-> {Nanoid(NANOID_SLUG_LENGTH, "x")},
     pageSlugs |-> {Nanoid(NANOID_SLUG_LENGTH, "x")}]

SpecPage == Init /\ [][NextPage(PageInputs)]_vars

\* The requests of the specification of the API's responses: a note "a"
\* protected by a password that holds a space, a public note "b" that
\* expires at time 1, and Creates and Updates whose title is a space; the
\* client reads and saves without a password, with that password and with
\* its first word, and clears the expiration.
Secret == <<"s", " ", "x">>

ApiCreates ==
    {CreateBody(<<"T">>, <<"A">>, Secret, <<"a">>, Undefined),
     CreateBody(<<"T">>, <<"A">>, <<>>, <<"b">>, Date(1)),
     CreateBody(<<" ">>, <<"A">>, <<>>, <<>>, Undefined)}

ApiSaves ==
    {UpdateBody(<<"T">>, <<"B">>, <<>>, <<>>, Undefined),
     UpdateBody(<<"T">>, <<"B">>, Secret, <<>>, Undefined),
     UpdateBody(<<"T">>, <<"B">>, <<"s">>, <<>>, Undefined),
     UpdateBody(<<"T">>, <<"A">>, <<>>, <<>>, Null),
     UpdateBody(<<" ">>, <<"B">>, <<>>, <<>>, Undefined),
     UpdateBody(<<"T">>, <<"A">>, <<>>, <<"s">>, Undefined)}

ApiInputs ==
    [creators |-> {"c1"},
     updaters |-> {"u1"},
     observe |-> TRUE,
     maxTime |-> MaxTime,
     maxNotes |-> MaxNotes,
     maxHist |-> MaxHist,
     maxInFlight |-> MaxInFlight,
     idChars |-> {"x"},
     createBodies |-> ApiCreates,
     updateBodies |-> [u \in Updaters |-> ApiSaves],
     readPasswords |-> {<<>>, <<"s">>, Secret},
     slugs |-> {<<"a">>, <<"b">>}]

SpecApi == Init /\ [][NextWith(ApiInputs)]_vars

\* The requests of the specification of sequential Creates: one Create at
\* a time (a single request slot), with a title that normalises to "t", with
\* a custom slug that normalises to nothing, and with an expiration, so that
\* later Creates meet the slugs of live and of expired notes; identifiers
\* are drawn from two values.
SeqCreates ==
    {CreateBody(<<"T">>, <<"A">>, <<>>, <<>>, Undefined),
     CreateBody(<<"T">>, <<"A">>, <<>>, <<>>, Date(1)),
     CreateBody(<<"T">>, <<"A">>, <<>>, <<"!">>, Undefined)}

SeqSaves ==
    {UpdateBody(<<"T">>, <<"A">>, <<>>, <<"n">>, Undefined),
     UpdateBody(<<"T">>, <<"B">>, <<"n">>, <<>>, Undefined)}

SeqInputs ==
    [creators |-> {"c1"},
     updaters |-> {"u1"},
     observe |-> FALSE,
     maxTime |-> MaxTime,
     maxNotes |-> MaxSeqNotes,
     maxHist |-> MaxHist,
     maxInFlight |-> MaxInFlight,
     idChars |-> {"x", "y"},
     createBodies |-> SeqCreates,
     updateBodies |-> [u \in Updaters |-> SeqSaves],
     readPasswords |-> {<<>>},
     slugs |-> {<<"t">>}]

SpecSeq == Init /\ [][NextWith(SeqInputs)]_vars

\* The requests of the specification of the clock: a note protected by "s"
\* that asks to expire at time 1 (accepted at time 0 and refused later),
\* saved by two clients whose requests interleave: u1 saves a content, a
\* password, and each expiration directive, u2 saves a content.
ClockCreates ==
    {CreateBody(<<"T">>, <<"A">>, <<"s">>, <<"!">>, Date(1))}

ClockSaves ==
    {UpdateBody(<<"T">>, <<"B">>, <<"s">>, <<>>, Undefined),
     UpdateBody(<<"T">>, <<"A">>, <<"s">>, <<"s">>, Undefined),
     UpdateBody(<<"T">>, <<"A">>, <<"s">>, <<>>, Null),
     UpdateBody(<<"T">>, <<"A">>, <<"s">>, <<>>, Date(1)),
     UpdateBody(<<"T">>, <<"B">>, <<"s">>, <<>>, Date(2))}

ClockInputs ==
    [creators |-> {"c1"},
     updaters |-> {"u1", "u2"},
     observe |-> FALSE,
     maxTime |-> MaxClock,
     maxNotes |-> MaxNotes,
     maxHist |-> MaxHist,
     maxInFlight |-> MaxInFlight,
     idChars |-> {"x"},
     createBodies |-> ClockCreates,
     updateBodies |->
        [u \in Updaters |->
            IF u = "u1" THEN ClockSaves
            ELSE {UpdateBody(<<"T">>, <<"B">>, <<"s">>, <<>>, Undefined)}],
     readPasswords |-> {<<>>, <<"s">>, <<"w">>},
     slugs |-> {Nanoid(NANOID_SLUG_LENGTH, "x")}]

SpecClock == Init /\ [][NextWith(ClockInputs)]_vars

\* The requests of the specification of password changes, whose responses
\* are observed: a note is created with the password Old and an expiration
\* at time 1; Updates change
\* the password to Secret and back, or save new content without a new
\* password, giving either password as the current one; the client reads
\* without a password and with either password.
Old == <<"o">>

SecretCreates == {CreateBody(<<"T">>, <<"A">>, Old, <<"!">>, Date(1))}

SecretSaves ==
    {UpdateBody(<<"T">>, <<"A">>, Old, Secret, Undefined),
     UpdateBody(<<"T">>, <<"A">>, Secret, Old, Undefined),
     UpdateBody(<<"T">>, <<"B">>, Old, <<>>, Undefined),
     UpdateBody(<<"T">>, <<"B">>, Secret, <<>>, Undefined)}

SecretInputs ==
    [creators |-> {"c1"},
     updaters |-> {"u1"},
     observe |-> TRUE,
     maxTime |-> MaxTime,
     maxNotes |-> MaxNotes,
     maxHist |-> MaxHist,
     maxInFlight |-> MaxInFlight,
     idChars |-> {"x"},
     createBodies |-> SecretCreates,
     updateBodies |-> [u \in Updaters |-> SecretSaves],
     readPasswords |-> {<<>>, Old, Secret},
     slugs |-> {Nanoid(NANOID_SLUG_LENGTH, "x")}]

SpecSecret == Init /\ [][NextWith(SecretInputs)]_vars

(* ------------------------ errors at the boundary ----------------------- *)
\* The error kind of a response, by the branch of the handler that sent
\* it: the 400 of the profanity filter, the other 400s, the 404s, the 401
\* sent when no password came, the 401 sent when bcrypt.compare failed,
\* and the 429 of the limiter.
IsError(resp) == resp.op # "none" /\ resp.status >= 400

ErrorKind(resp) ==
    CASE resp.status = 429 -> "rate limited"
      [] resp.status = 404 -> "not found"
      [] resp.status = 401 ->
            IF resp.message \in {"Password required.", "Current password required."}
            THEN "secret required"
            ELSE "unauthorized"
      [] resp.status = 400 ->
            IF resp.message = "profanity" THEN "offensive content"
            ELSE "validation"
      [] OTHER -> "persistence failure"

\* What a client sees of an error response besides its message: the HTTP
\* status, and the error property the profanity response alone carries.
Category(resp) ==
    [status |-> resp.status,
     error |-> IF resp.status = 400 /\ resp.message = "profanity"
               THEN "Profanity detected" ELSE Undefined]

\* The specification of the limiters: requests of one client address that
\* end within the first stretch of their handler (a Create without a
\* title, and a Read, a History-read and an Update of a slug that no note
\* has), each preceded by the limiter call of its route file; between
\* requests half a window may pass.  The limiter's decision is the one the
\* Map of the route gives, and every call is recorded in admissions; ips
\* gives the client addresses that send to each route.
LimiterInputs ==
    [creators |-> {"c1"},
     updaters |-> {"u1"},
     observe |-> FALSE,
     maxTime |-> MaxElapses * (WINDOW_SIZE_MS \div 2),
     maxChecks |-> MaxChecks,
     ips |-> [route \in Routes |-> {"anonymous"}],
     createBodies |-> {CreateBody(<<>>, <<"A">>, <<>>, <<>>, Undefined)},
     updateBodies |->
        [u \in Updaters |-> {UpdateBody(<<"T">>, <<"B">>, <<>>, <<>>, Undefined)}],
     readPasswords |-> {<<>>},
     slugs |-> {<<"z">>}]

NextLimited(In) ==
    \/ /\ now < In.maxTime /\ Elapse /\ Respond(In, NoResponse)
       /\ UNCHANGED <<page, rateLimitStore, admissions>>
    \/ \E ip \in In.ips["notes"], c \in In.creators, body \in In.createBodies :
        LET admitted == Admits(rateLimitStore["notes"], ip, now, "notes")
        IN  /\ Checks < In.maxChecks
            /\ Limit("notes", ip)
            /\ CreateStart(c, body, admitted)
            /\ Respond(In, CreateStartResponse(body, admitted))
            /\ UNCHANGED page
    \/ \E ip \in In.ips["slug"], slug \in In.slugs, authHeader \in AuthHeaders(In) :
        LET admitted == Admits(rateLimitStore["slug"], ip, now, "slug")
        IN  /\ Checks < In.maxChecks
            /\ Limit("slug", ip)
            /\ Read(slug, authHeader, admitted)
            /\ Respond(In, ReadResponse(slug, authHeader, admitted))
            /\ UNCHANGED page
    \/ \E ip \in In.ips["history"], slug \in In.slugs, authHeader \in AuthHeaders(In) :
        LET admitted == Admits(rateLimitStore["history"], ip, now, "history")
        IN  /\ Checks < In.maxChecks
            /\ Limit("history", ip)
            /\ HistoryRead(slug, authHeader, admitted)
            /\ Respond(In, HistoryReadResponse(slug, authHeader, admitted))
            /\ UNCHANGED page
    \/ \E ip \in In.ips["slug"], u \in In.updaters, slug \in In.slugs :
          \E body \in In.updateBodies[u] :
            LET admitted == Admits(rateLimitStore["slug"], ip, now, "slug")
            IN  /\ Checks < In.maxChecks
                /\ Limit("slug", ip)
                /\ UpdateFetch(u, slug, body, admitted)
                /\ Respond(In, UpdateFetchResponse(slug, body, admitted))
                /\ UNCHANGED page

SpecLimiter == Init /\ [][NextLimited(LimiterInputs)]_vars

\* The specification of the allocator's termination: the sequential
\* Creates, with as many random characters to draw from as the collection
\* can hold notes, so that some random identifier is always free, as in
\* the identifier space of nanoid.  The findOne of a pass of either loop
\* resolves (weak fairness of the passes), and a free identifier is drawn
\* in the end (strong fairness of the pass of the fallback loop that finds
\* its identifier free).
IdAlphabet == <<"x", "y", "z", "w", "v">>

LiveInputs ==
    [SeqInputs EXCEPT !.idChars = {IdAlphabet[i] : i \in 1..MaxSeqNotes}]

AttemptStep(In, c) ==
    \E random \in In.idChars :
        /\ CreateAttempt(c, random) /\ Respond(In, NoResponse)
        /\ UNCHANGED <<page, rateLimitStore, admissions>>

FreeFallbackStep(In, c) ==
    \E random \in In.idChars :
        /\ CreateFallback(c, random) /\ Respond(In, NoResponse)
        /\ UNCHANGED <<page, rateLimitStore, admissions>>
        /\ cpc'[c] = "insert"

SpecLive ==
    /\ Init /\ [][NextWith(LiveInputs)]_vars
    /\ \A c \in LiveInputs.creators :
        /\ WF_vars(AttemptStep(LiveInputs, c))
        /\ SF_vars(FreeFallbackStep(LiveInputs, c))

\* The requests of the specification of concurrent Creates: two Creates
\* can be in flight at once, with a title that normalises to "t" or with a
\* custom slug that normalises to nothing, and identifiers are drawn from
\* one value, so that both can check the same candidate.
RaceInputs ==
    [creators |-> {"c1", "c2"},
     updaters |-> {"u1"},
     observe |-> FALSE,
     maxTime |-> MaxTime,
     maxNotes |-> MaxNotes,
     maxHist |-> MaxHist,
     maxInFlight |-> MaxInFlight,
     idChars |-> {"x"},
     createBodies |->
        {CreateBody(<<"T">>, <<"A">>, <<>>, <<>>, Undefined),
         CreateBody(<<"T">>, <<"C">>, <<>>, <<"!">>, Undefined)},
     updateBodies |-> [u \in Updaters |-> SeqSaves],
     readPasswords |-> {<<>>},
     slugs |-> {<<"t">>}]

SpecRace == Init /\ [][NextWith(RaceInputs)]_vars

\* The requests of the specification of the error responses, whose
\* responses are observed: Creates and Updates that are valid, without a
\* title, with a profane content, and with an expiration that is not in
\* the future; Updates without a password and with a wrong one; requests
\* for a slug that no note has; the note created expires at time 1.
ErrCreates ==
    {CreateBody(<<"T">>, <<"A">>, <<"s">>, <<"!">>, Date(1)),
     CreateBody(<<>>, <<"A">>, <<>>, <<>>, Undefined),
     CreateBody(<<"T">>, <<"#">>, <<>>, <<>>, Undefined),
     CreateBody(<<"T">>, <<"A">>, <<"s">>, <<"!">>, Date(0))}

ErrSaves ==
    {UpdateBody(<<"T">>, <<"B">>, <<"s">>, <<"s">>, Undefined),
     UpdateBody(<<>>, <<"B">>, <<"s">>, <<>>, Undefined),
     UpdateBody(<<"T">>, <<"#">>, <<"s">>, <<>>, Undefined),
     UpdateBody(<<"T">>, <<"B">>, <<>>, <<>>, Undefined),
     UpdateBody(<<"T">>, <<"B">>, <<"w">>, <<>>, Undefined),
     UpdateBody(<<"T">>, <<"B">>, <<"s">>, <<>>, Date(0))}

ErrInputs ==
    [creators |-> {"c1"},
     updaters |-> {"u1"},
     observe |-> TRUE,
     maxTime |-> MaxTime,
     maxNotes |-> MaxNotes,
     maxHist |-> MaxHist,
     maxInFlight |-> MaxInFlight,
     idChars |-> {"x"},
     createBodies |-> ErrCreates,
     updateBodies |-> [u \in Updaters |-> ErrSaves],
     readPasswords |-> {<<>>, <<"s">>},
     slugs |-> {Nanoid(NANOID_SLUG_LENGTH, "x"), <<"z">>}]

SpecErr == Init /\ [][NextWith(ErrInputs)]_vars

\* The requests of the specification of the password race: a note is
\* created with the password "s"; one Update changes the password to "n"
\* and another saves a new content, both giving "s" as the current
\* password, and both can be in flight at once.
StaleInputs ==
    [creators |-> {"c1"},
     updaters |-> {"u1", "u2"},
     observe |-> FALSE,
     maxTime |-> MaxTime,
     maxNotes |-> MaxNotes,
     maxHist |-> MaxHist,
     maxInFlight |-> MaxInFlight,
     idChars |-> {"x"},
     createBodies |-> {CreateBody(<<"T">>, <<"A">>, <<"s">>, <<"!">>, Undefined)},
     updateBodies |->
        [u \in Updaters |->
            IF u = "u1"
            THEN {UpdateBody(<<"T">>, <<"A">>, <<"s">>, <<"n">>, Undefined)}
            ELSE {UpdateBody(<<"T">>, <<"B">>, <<"s">>, <<>>, Undefined)}],
     readPasswords |-> {<<>>, <<"s">>, <<"n">>},
     slugs |-> {Nanoid(NANOID_SLUG_LENGTH, "x")}]

SpecStale == Init /\ [][NextWith(StaleInputs)]_vars

\* The specification of the limiter keys: the requests of the
\* specification of the limiters, with a second client address that sends
\* Creates.
KeysInputs ==
    [LimiterInputs EXCEPT
        !.ips = [route \in Routes |->
                    IF route = "notes" THEN Ips ELSE {"anonymous"}]]

SpecKeys == Init /\ [][NextLimited(KeysInputs)]_vars

(* ============================== properties ============================= *)
IsPrefix(s, t) == Len(s) <= Len(t) /\ SubSeq(t, 1, Len(s)) = s

Contents(history) == [k \in 1..Len(history) |-> history[k].content]

\* This step is the updateOne of the Update request u.
Writes(u) == upc[u] = "write" /\ upc'[u] = "idle"

\* The index of the document the Update u reads and writes.
Target(u) == IndexOf(notes, uloc[u].slug)

\* C1 (History append law): the updateOne of an Update appends exactly one
\* revision, carrying the new content, to the end of the note's history
\* when the new content differs from the content the Update read, and
\* leaves the history as it is when they are equal (so a save of only the
\* title, the password or the expiration appends nothing); no other note
\* changes.
HistoryAppendLaw ==
    [][\A u \in Updaters :
        Writes(u) =>
            /\ Target(u) > 0
            /\ Len(notes') = Len(notes)
            /\ \A j \in 1..Len(notes) : j # Target(u) => notes'[j] = notes[j]
            /\ LET before == notes[Target(u)].history
                   after == notes'[Target(u)].history
               IN  IF uloc[u].body.content # uloc[u].note.content
                   THEN /\ Len(after) = Len(before) + 1
                        /\ IsPrefix(before, after)
                        /\ after[Len(after)].content = uloc[u].body.content
                   ELSE after = before]_vars

\* A save of the title alone was applied and the history still holds only
\* the revision of Create.
TitleSavedWithoutRevision ==
    \E i \in 1..Len(notes) :
        /\ notes[i].title = <<"U">>
        /\ Len(notes[i].history) = 1

\* C2 (History is append-only): in every step, of any request, every stored
\* note stays in the collection and its history before the step is a prefix
\* of its history after the step.
HistoryAppendOnly ==
    [][/\ Len(notes') >= Len(notes)
       /\ \A i \in 1..Len(notes) :
            /\ notes'[i].slug = notes[i].slug
            /\ IsPrefix(notes[i].history, notes'[i].history)]_vars

ThreeRevisions == \E i \in 1..Len(notes) : Len(notes[i].history) >= 3

\* C4 (Restore never removes history): the updateOne of a restore -- an
\* Update carrying the content of one of the note's revisions and the
\* note's title, where that content differs from the note's content as the
\* Update read it -- sets the content to the revision's content and makes
\* the history exactly one entry longer, the new last entry carrying the
\* restored content and all earlier entries unchanged.
RestoreAppends ==
    [][\A u \in Updaters :
        (/\ Writes(u)
         /\ \E k \in 1..Len(uloc[u].note.history) :
                uloc[u].note.history[k].content = uloc[u].body.content
         /\ uloc[u].body.title = uloc[u].note.title
         /\ uloc[u].body.content # uloc[u].note.content)
        => LET before == notes[Target(u)]
               after == notes'[Target(u)]
           IN  /\ after.content = uloc[u].body.content
               /\ Len(after.history) = Len(before.history) + 1
               /\ SubSeq(after.history, 1, Len(before.history)) = before.history
               /\ after.history[Len(after.history)].content = uloc[u].body.content
               /\ after.title = uloc[u].note.title]_vars

\* Content A was saved, replaced by B and restored.
RestoredFirstRevision ==
    \E i \in 1..Len(notes) :
        /\ Contents(notes[i].history) = <<<<"A">>, <<"B">>, <<"A">>>>
        /\ notes[i].content = <<"A">>
        /\ notes[i].title = <<"T">>

\* C9 (Atomic apply): every step that changes the collection is either the
\* insertOne of a Create, or the updateOne of one Update, which in that one
\* step sets title, content and updatedAt, sets the credential digest when
\* a new password was given, sets or clears expiresAt when the request says
\* so, and appends the revision when the content differs from the content
\* read; so no state holds only some of an Update's changes.
AtomicApply ==
    [][notes' # notes =>
        \/ /\ Len(notes') = Len(notes) + 1
           /\ SubSeq(notes', 1, Len(notes)) = notes
           /\ \E c \in Creators : cpc[c] = "insert" /\ cpc'[c] = "idle"
        \/ \E u \in Updaters :
            /\ Writes(u)
            /\ Len(notes') = Len(notes)
            /\ \A j \in 1..Len(notes) : j # Target(u) => notes'[j] = notes[j]
            /\ LET before == notes[Target(u)]
                   after == notes'[Target(u)]
                   body == uloc[u].body
               IN  /\ after.slug = before.slug
                   /\ after.createdAt = before.createdAt
                   /\ after.title = body.title
                   /\ after.content = body.content
                   /\ after.updatedAt = uloc[u].updateDoc.set.updatedAt
                   /\ after.passwordHash =
                        IF Truthy(body.newPassword) THEN Hash(body.newPassword)
                        ELSE before.passwordHash
                   /\ after.expiresAt =
                        IF body.expiresAt = Undefined THEN before.expiresAt
                        ELSE body.expiresAt
                   /\ IF body.content # uloc[u].note.content
                      THEN /\ Len(after.history) = Len(before.history) + 1
                           /\ IsPrefix(before.history, after.history)
                           /\ after.history[Len(after.history)].content
                                = body.content
                      ELSE after.history = before.history]_vars

\* One Update changed content, expiration and history together.
SavedContentAndExpiry ==
    \E i \in 1..Len(notes) :
        /\ notes[i].content = <<"B">>
        /\ notes[i].expiresAt = Date(2)
        /\ Contents(notes[i].history) = <<<<"A">>, <<"B">>>>

\* C5 (Restore request content): every step of the history page that sends
\* a PUT sends the content of the revision whose Restore button was clicked
\* and the title of the current note, on the prompt's path and on the
\* click handler's own path.
RestoreSendsClickedRevision ==
    [][(page.put = Null /\ page'.put # Null) =>
        /\ page'.put.body.content =
                ReversedHistory(page')[page'.restoreIndex + 1].content
        /\ page'.put.body.title = page'.currentNote.title]_vars

\* This step is the first step of an Update and ends it with a response.
AnsweredOnArrival == response'.op = "Update" /\ upc' = upc

\* C6 (Expiration opacity): a Read and an Update that arrive for a stored
\* note whose expiresAt is at or before the current time are answered with
\* the status the same request gets for a slug that was never created.
ExpirationOpacity ==
    [][\A slug \in Slugs(notes) :
        Expired(FindOne(notes, slug), now) =>
            /\ (/\ response'.op = "Read"
                /\ response'.status # 429
                /\ response'.slug = slug)
               => response'.status =
                    ReadResult(<<>>, now, slug, response'.authHeader).status
            /\ (/\ AnsweredOnArrival
                /\ response'.status # 429
                /\ response'.slug = slug)
               => response'.status =
                    FetchAndCheck(<<>>, now, slug, response'.body)
                        .response.status]_vars

\* The answer of a Read or a History-read that carries the secret supplied
\* for a live note protected by the secret expected.
GateAnswer(resp, supplied, expected) ==
    IF Falsy(supplied)
    THEN resp.status = 401 /\ resp.message = "Password required."
    ELSE IF supplied = expected
    THEN resp.status = 200
    ELSE resp.status = 401 /\ resp.message = "Invalid password."

\* C7 (Access gate symmetry): for a live note created with the secret S, a
\* Read carrying S in the Authorization header is answered 200, one carrying
\* another secret is answered Unauthorized and one carrying none is answered
\* SecretRequired; an Update whose currentPassword is S passes the gate, one
\* with another currentPassword is answered Unauthorized and one with none
\* is answered SecretRequired.
AccessGateSymmetry ==
    [][/\ \A slug \in Slugs(notes) :
            LET note == FindOne(notes, slug)
            IN  (note.passwordHash # Undefined /\ ~Expired(note, now)) =>
                  /\ (/\ response'.op \in {"Read", "History"}
                      /\ response'.status # 429
                      /\ response'.slug = slug)
                     => \A supplied \in ApiInputs.readPasswords :
                            response'.authHeader = Bearer(supplied) =>
                                GateAnswer(response', supplied,
                                           note.passwordHash.of)
                  /\ (/\ AnsweredOnArrival
                      /\ response'.status \in {200, 401}
                      /\ response'.slug = slug)
                     => /\ Falsy(response'.body.currentPassword)
                        /\ response'.status = 401
                        /\ response'.message = "Current password required."
                  /\ \A u \in Updaters :
                        (/\ upc[u] = "idle" /\ upc'[u] # "idle"
                         /\ uloc'[u].slug = slug)
                        => /\ upc'[u] = "compare"
                           /\ Truthy(uloc'[u].body.currentPassword)
       /\ \A u \in Updaters :
            upc[u] = "compare" =>
                IF uloc[u].body.currentPassword = uloc[u].note.passwordHash.of
                THEN upc'[u] \in {"compare", "hash", "write"}
                ELSE upc'[u] = "compare"
                        \/ /\ upc'[u] = "idle"
                           /\ response'.status = 401
                           /\ response'.message = "Incorrect password."]_vars

\* C8 (Expired state is irreversible): no step changes a stored note whose
\* expiresAt is at or before the current time, and a Read that arrives for
\* it is answered NotFound; the steps include the updateOne of an Update
\* that fetched the note before the expiry instant.
ExpiredIsIrreversible ==
    [][\A i \in 1..Len(notes) :
        Expired(notes[i], now) =>
            /\ notes'[i] = notes[i]
            /\ (/\ response'.op = "Read"
                /\ response'.status # 429
                /\ response'.slug = notes[i].slug
                /\ IndexOf(notes, notes[i].slug) = i)
               => response'.status = 404]_vars

Blank(s) == Falsy(Trim(s))

\* C10 (Empty-field rejection): a Create or an Update whose title or content
\* is empty after trimming is answered with the validation error and goes
\* no further, so no request in flight and no stored note has such a title
\* or content.
EmptyFieldsRejected ==
    /\ \A c \in Creators :
        cpc[c] # "idle" =>
            ~Blank(cloc[c].body.title) /\ ~Blank(cloc[c].body.content)
    /\ \A u \in Updaters :
        upc[u] # "idle" =>
            ~Blank(uloc[u].body.title) /\ ~Blank(uloc[u].body.content)
    /\ \A i \in 1..Len(notes) :
        ~Blank(notes[i].title) /\ ~Blank(notes[i].content)
    /\ (/\ response.op = "Create"
        /\ response.status # 429
        /\ Blank(response.title) \/ Blank(response.content))
       => response.status = 400 /\ response.message = "required"
    /\ (/\ response.op = "Update"
        /\ response.status # 429
        /\ Blank(response.body.title) \/ Blank(response.body.content))
       => response.status = 400 /\ response.message = "required"

\* C3 (Slug uniqueness): when the Creates run one after another, no two
\* stored notes, live or expired, have the same slug.
SlugUniqueness ==
    \A i, j \in 1..Len(notes) : notes[i].slug = notes[j].slug => i = j

\* Three Creates in a row asked for the slug "t": the second got a suffix,
\* the third met both slugs in all its passes and got a random identifier,
\* and the first note has expired.
ThreeSlugsFromOneTitle ==
    /\ Len(notes) = 3
    /\ notes[1].slug = <<"t">> /\ Expired(notes[1], now)
    /\ notes[2].slug = <<"t", "-">> \o Nanoid(SuffixLength, "x")
    /\ notes[3].slug = Nanoid(NANOID_SLUG_LENGTH, "x")
    /\ \A i \in 1..3 : notes[i].title = <<"T">>

\* This step is the step of the Update u that resolves its expiresAt: the
\* step after bcrypt.hash, or the step after bcrypt.compare of a request
\* that brings no new password.
ResolvesExpiry(u) ==
    \/ upc[u] = "hash" /\ upc'[u] # "hash"
    \/ /\ upc[u] = "compare" /\ upc'[u] # "compare"
       /\ Compare(uloc[u].body.currentPassword, uloc[u].note.passwordHash)
       /\ Falsy(uloc[u].body.newPassword)

NotAfter(asked, t) == IsDate(asked) /\ asked.t <= t

\* C11 (Future-only expiration): a Create or an Update whose expiresAt is a
\* timestamp not strictly after the current time is answered with the
\* validation error and writes nothing; a timestamp enters an update
\* document or the store only in a step at whose time it is strictly in the
\* future, and a stored expiresAt changes only to the value of such an
\* update document.
FutureOnlyExpiration ==
    [][/\ \A c \in Creators :
            (cpc[c] = "insert" /\ cpc'[c] = "idle") =>
                IF NotAfter(cloc[c].body.expiresAt, now)
                THEN /\ notes' = notes
                     /\ CreateInsertResponse(cloc[c], now).status = 400
                ELSE /\ Len(notes') = Len(notes) + 1
                     /\ IsDate(notes'[Len(notes')].expiresAt) =>
                            notes'[Len(notes')].expiresAt.t > now
       /\ \A u \in Updaters :
            /\ (ResolvesExpiry(u) /\ NotAfter(uloc[u].body.expiresAt, now)) =>
                    /\ upc'[u] = "idle"
                    /\ notes' = notes
                    /\ PrepareExpiryAndPush(uloc[u], now).response.status = 400
            /\ (upc[u] # "write" /\ upc'[u] = "write") =>
                    /\ ~NotAfter(uloc'[u].body.expiresAt, now)
                    /\ uloc'[u].updateDoc.set.expiresAt = uloc'[u].body.expiresAt
       /\ \A i \in 1..Len(notes) :
            notes'[i].expiresAt # notes[i].expiresAt =>
                \E u \in Updaters :
                    /\ Writes(u) /\ Target(u) = i
                    /\ notes'[i].expiresAt = uloc[u].updateDoc.set.expiresAt]_vars

\* The expiration an Update set to time 2, validated before, has passed.
SetExpirationPassed ==
    \E i \in 1..Len(notes) : notes[i].expiresAt = Date(2) /\ now = 2

\* C12 (Expiration directive of Update): the updateOne of an Update whose
\* expiresAt is null leaves the note without expiration, so that it is
\* expired at no later time; with a timestamp (strictly future when it was
\* validated) it leaves expiresAt equal to that timestamp; with expiresAt
\* absent it leaves the stored expiresAt as it was just before the write.
\* No step other than an updateOne changes a stored expiresAt.
ExpirationDirective ==
    [][/\ \A u \in Updaters :
            (Writes(u) /\ Target(u) # 0) =>
                LET directive == uloc[u].body.expiresAt
                    before == notes[Target(u)]
                    after == notes'[Target(u)]
                IN  /\ directive = Null =>
                            /\ after.expiresAt = Null
                            /\ \A t \in now..(MaxClock + 1) : ~Expired(after, t)
                    /\ IsDate(directive) => after.expiresAt = directive
                    /\ directive = Undefined =>
                            after.expiresAt = before.expiresAt
       /\ (\A u \in Updaters : ~Writes(u)) =>
            \A i \in 1..Len(notes) : notes'[i].expiresAt = notes[i].expiresAt]_vars

\* A note created with an expiration at time 1 was cleared of it and is
\* alive after that time.
ClearedNoteOutlivesExpiry ==
    \E i \in 1..Len(notes) :
        /\ notes[i].expiresAt = Null
        /\ now > 1
        /\ ~Expired(notes[i], now)

ExpiryBeforeGate ==
    [][\A slug \in Slugs(notes) :
            (/\ Expired(FindOne(notes, slug), now)
             /\ response'.op \in {"Read", "History"}
             /\ response'.status # 429
             /\ response'.slug = slug)
            => /\ response'.status = 404
               /\ response'.body = Undefined]_vars

\* A Read with the password of an expired protected note was answered 404.
ExpiredReadWithPassword ==
    /\ response.op = "Read"
    /\ response.status = 404
    /\ \E i \in 1..Len(notes) :
        /\ notes[i].slug = response.slug
        /\ Expired(notes[i], now)
        /\ notes[i].passwordHash # Undefined
        /\ response.authHeader = Bearer(notes[i].passwordHash.of)

\* C15 (Distinct error categories): two error responses sent one after the
\* other that are of different error kinds differ in what the client sees
\* besides the message (the status, and the error property).
DistinctErrorCategories ==
    [][(/\ IsError(response) /\ IsError(response')
        /\ ErrorKind(response) # ErrorKind(response'))
       => Category(response) # Category(response')]_vars

\* The times at which the limiter of a route admitted a request of ip.
AdmittedAt(route, ip) ==
    LET IsAdmitted(call) == call.admitted
    IN  SelectSeq(admissions[route][ip], IsAdmitted)

\* C16 (Rate-limit quota per rolling window): for every route and client
\* address, any quota + 1 requests the limiter of the route admitted span
\* at least a whole window of 60 seconds, so that no interval shorter than
\* the window holds more admissions than the quota (5 for Create, 10 for
\* Read plus Update, 10 for History-read).
RollingWindowQuota ==
    \A route \in Routes, ip \in Ips :
        LET adm == AdmittedAt(route, ip)
            quota == MAX_REQUESTS_PER_WINDOW(route)
        IN  \A i \in 1..(Len(adm) - quota) :
                adm[i + quota].at - adm[i].at >= WINDOW_SIZE_MS

\* C17 (updatedAt advances): no step makes the updatedAt of a stored note
\* smaller, whatever the interleaving of the Updates of its slug, and the
\* createdAt of every stored note is at most its updatedAt.
UpdatedAtAdvances ==
    [][\A i \in 1..Len(notes) :
            /\ notes'[i].updatedAt >= notes[i].updatedAt
            /\ notes'[i].createdAt <= notes'[i].updatedAt]_vars

\* C18 (History is chronological): in every state the timestamps of the
\* revisions of every stored note are non-decreasing in list order, and a
\* History-read that passes the gate returns the revisions in the stored
\* order.
HistoryChronological ==
    \A i \in 1..Len(notes) :
        /\ \A k \in 1..(Len(notes[i].history) - 1) :
                notes[i].history[k].timestamp <= notes[i].history[k + 1].timestamp
        /\ HistoryResponse(notes[i]).history = notes[i].history

\* C20 (Allocator attempt order and bound): in every pass of the bounded
\* loop of generateUniqueSlug fewer than 5 candidates were checked before;
\* with a non-empty base the first pass checks the base itself and returns
\* it exactly when no note has it, and a later pass returns only the base
\* followed by '-' and 4 random characters that no note has; with an empty
\* base a pass returns only a random identifier of 8 characters; a
\* collision counts one attempt, and the allocator goes over to fully
\* random identifiers exactly when the fifth candidate collided.
AllocatorAttempts ==
    [][\A c \in Creators :
        /\ (cpc[c] = "idle" /\ cpc'[c] = "alloc") => cloc'[c].attempts = 0
        /\ (cpc[c] = "alloc" /\ <<cpc[c], cloc[c]>> # <<cpc'[c], cloc'[c]>>) =>
            LET base == cloc[c].baseSlug
                attempts == cloc[c].attempts
                final == cloc'[c].finalSlug
            IN  /\ attempts < 5
                /\ (Len(base) > 0 /\ attempts = 0) =>
                        IF FindOne(notes, base) = Null
                        THEN cpc'[c] = "insert" /\ final = base
                        ELSE cpc'[c] # "insert"
                /\ (cpc'[c] = "insert" /\ Len(base) > 0 /\ attempts > 0) =>
                        /\ Len(final) = Len(base) + 1 + 4
                        /\ SubSeq(final, 1, Len(base)) = base
                        /\ final[Len(base) + 1] = "-"
                /\ (cpc'[c] = "insert" /\ Len(base) = 0) => Len(final) = 8
                /\ cpc'[c] = "insert" => FindOne(notes, final) = Null
                /\ cpc'[c] # "insert" =>
                        /\ cloc'[c].attempts = attempts + 1
                        /\ cloc'[c].baseSlug = base
                        /\ cpc'[c] = IF attempts + 1 = 5 THEN "fallback" ELSE "alloc"
        /\ (cpc[c] = "fallback" /\ cpc'[c] = "insert") =>
                /\ Len(cloc'[c].finalSlug) = 8
                /\ FindOne(notes, cloc'[c].finalSlug) = Null]_vars

\* A Create with a non-empty base met five collisions and went over to
\* fully random identifiers, while a note holds the base with a suffix.
BoundedPhaseExhausted ==
    \E c \in Creators :
        /\ cpc[c] = "fallback"
        /\ cloc[c].baseSlug = <<"t">>
        /\ cloc[c].attempts = 5
        /\ \E i \in 1..Len(notes) : Len(notes[i].slug) = 6

\* C21 (Allocator termination): a call of generateUniqueSlug makes at most
\* 5 passes of the bounded loop, each counting one attempt when its
\* candidate collides, and goes on to the fallback loop only after the
\* fifth collision; the fallback loop returns at its first identifier that
\* no note has; the call has no other way out than returning a slug that
\* its findOne just reported absent; and, the passes being fair and a free
\* identifier being drawn in the end, every call returns.
AllocatorTerminates ==
    /\ [][\A c \in Creators :
            /\ cpc[c] = "alloc" =>
                /\ cloc[c].attempts < MAX_ATTEMPTS
                /\ cpc'[c] \in {"alloc", "fallback", "insert"}
                /\ cpc'[c] = "fallback" => cloc'[c].attempts = MAX_ATTEMPTS
                /\ cloc'[c].attempts \in {cloc[c].attempts, cloc[c].attempts + 1}
            /\ cpc[c] = "fallback" =>
                /\ cpc'[c] \in {"fallback", "insert"}
                /\ cloc'[c].attempts = cloc[c].attempts
            /\ (cpc[c] \in {"alloc", "fallback"} /\ cpc'[c] = "insert") =>
                FindOne(notes, cloc'[c].finalSlug) = Null]_vars
    /\ \A c \in Creators :
            (cpc[c] \in {"alloc", "fallback"}) ~> (cpc[c] = "insert")

\* The fallback loop returned an identifier while a note holds another
\* random identifier.
FallbackReturned ==
    \E c \in Creators :
        /\ cpc[c] = "insert"
        /\ cloc[c].attempts = MAX_ATTEMPTS
        /\ Len(cloc[c].finalSlug) = NANOID_SLUG_LENGTH
        /\ \E i \in 1..Len(notes) : Len(notes[i].slug) = NANOID_SLUG_LENGTH

\* C22 (Concurrent Create race): the insertOne of a Create adds its note
\* under the slug its allocator returned, whatever the collection holds by
\* then, and changes no other note; the allocator returned that slug when
\* its findOne found none.  There is no check at the insert, so two
\* interleaved Creates that both found one candidate free both insert it.
CheckThenInsert ==
    [][\A c \in Creators :
        /\ (cpc[c] \in {"alloc", "fallback"} /\ cpc'[c] = "insert") =>
                FindOne(notes, cloc'[c].finalSlug) = Null
        /\ (/\ cpc[c] = "insert" /\ cpc'[c] = "idle"
            /\ ~NotAfter(cloc[c].body.expiresAt, now)) =>
                /\ Len(notes') = Len(notes) + 1
                /\ notes'[Len(notes')].slug = cloc[c].finalSlug
                /\ \A i \in 1..Len(notes) : notes'[i] = notes[i]]_vars

\* Two stored notes, of different Creates, share the slug "t".
TwoNotesShareSlug ==
    \E i, j \in 1..Len(notes) :
        /\ i # j
        /\ notes[i].slug = <<"t">> /\ notes[j].slug = <<"t">>

\* The Update u is about to write, and since it read the note exactly one
\* other write has appended a revision, whose content differs from the
\* content u read.
OvertakenByRevision(u) ==
    LET read == uloc[u].note
        stored == notes[Target(u)]
    IN  /\ Len(stored.history) = Len(read.history) + 1
        /\ IsPrefix(read.history, stored.history)
        /\ stored.history[Len(stored.history)].content # read.content

\* C23 (Concurrent Updates both append): when an Update that carries a
\* content different from the content X it read writes after another
\* Update has appended its revision of a content different from X, its
\* own revision is appended after that one (also when the two contents
\* are equal), and the title and the content become those of this later
\* write.
ConcurrentUpdatesBothAppend ==
    [][\A u \in Updaters :
        (/\ Writes(u) /\ Target(u) > 0
         /\ OvertakenByRevision(u)
         /\ uloc[u].body.content # uloc[u].note.content)
        => LET stored == notes[Target(u)]
               after == notes'[Target(u)]
           IN  /\ Len(after.history) = Len(uloc[u].note.history) + 2
               /\ SubSeq(after.history, 1, Len(stored.history)) = stored.history
               /\ after.history[Len(after.history)].content = uloc[u].body.content
               /\ after.title = uloc[u].body.title
               /\ after.content = uloc[u].body.content]_vars

\* Two Updates that both read the content "A" both appended "B".
EqualRevisionsAppended ==
    \E i \in 1..Len(notes) :
        /\ Len(notes[i].history) = 3
        /\ notes[i].history[1].content = <<"A">>
        /\ notes[i].history[2].content = <<"B">>
        /\ notes[i].history[3].content = <<"B">>
        /\ notes[i].content = <<"B">>

\* C24 (Lost update not reflected in history): when an Update that carries
\* the content X it read writes after another Update has changed the
\* content to Y and appended the revision Y, the content becomes X again
\* and the history stays as it is, so that its newest revision holds Y and
\* no revision records the overwrite.
LostUpdateNotInHistory ==
    [][\A u \in Updaters :
        (/\ Writes(u) /\ Target(u) > 0
         /\ OvertakenByRevision(u)
         /\ notes[Target(u)].content # uloc[u].note.content
         /\ uloc[u].body.content = uloc[u].note.content)
        => LET stored == notes[Target(u)]
               after == notes'[Target(u)]
           IN  /\ after.content = uloc[u].note.content
               /\ after.history = stored.history
               /\ after.history[Len(after.history)].content = stored.content
               /\ after.history[Len(after.history)].content # after.content]_vars

\* The content is "A" again while the newest of the two revisions is "B".
OverwrittenWithoutRevision ==
    \E i \in 1..Len(notes) :
        /\ Len(notes[i].history) = 2
        /\ notes[i].history[2].content = <<"B">>
        /\ notes[i].content = <<"A">>

\* C25 (Newest revision mirrors current content): while the Updates and
\* the Restores of the history page run one at a time, in every state the
\* history of every stored note is non-empty, its last revision holds the
\* note's current content, and no two consecutive revisions hold the same
\* content.
NewestRevisionMirrorsContent ==
    \A i \in 1..Len(notes) :
        LET history == notes[i].history
        IN  /\ Len(history) >= 1
            /\ history[Len(history)].content = notes[i].content
            /\ \A k \in 1..(Len(history) - 1) :
                    history[k].content # history[k + 1].content

\* After a save of "B", a Restore of the page has put the first revision
\* "A" back.
RestoredAfterSave ==
    \E i \in 1..Len(notes) :
        /\ Contents(notes[i].history) = <<<<"A">>, <<"B">>, <<"A">>>>
        /\ notes[i].content = <<"A">>

\* C26 (Errors leave the store unchanged): a step that sends an error
\* response of a Create or an Update, and every step of a Read or a
\* History-read, leaves the collection as it was; the collection changes
\* only in a step that sends the success response of a Create or an
\* Update.
ErrorsLeaveStoreUnchanged ==
    [][/\ IsError(response') => notes' = notes
       /\ response'.op \in {"Read", "History"} => notes' = notes
       /\ notes' # notes =>
            /\ response'.op \in {"Create", "Update"}
            /\ response'.status \in {200, 201}]_vars

\* An Update of a stored note was refused for its expiration.
UpdateRefusedForExpiration ==
    /\ response.op = "Update"
    /\ response.status = 400
    /\ response.message = "future"
    /\ Len(notes) >= 1

\* C27 (No write under a stale credential): an updateOne of an Update
\* changes a note that holds a credential digest only if the
\* currentPassword of that Update matches the digest the note holds at
\* that step; so after the password was changed from S to another one, no
\* Update that gave S changes the note.
NoWriteUnderStaleCredential ==
    [][\A u \in Updaters :
        (/\ Writes(u) /\ Target(u) > 0
         /\ notes'[Target(u)] # notes[Target(u)]
         /\ notes[Target(u)].passwordHash # Undefined)
        => Compare(uloc[u].body.currentPassword,
                   notes[Target(u)].passwordHash)]_vars

\* C28 (Protection is monotone): no step of a Create, a Read, a
\* History-read, an Update or a Restore of the history page leaves a
\* stored note that held a credential digest without one.
ProtectionIsMonotone ==
    [][\A i \in 1..Len(notes) :
        notes[i].passwordHash # Undefined =>
            /\ Len(notes') >= i
            /\ notes'[i].slug = notes[i].slug
            /\ notes'[i].passwordHash # Undefined]_vars

\* A note that an Update protected at time 0 holds its digest at time 1,
\* when no request is in flight.
ProtectedNoteStaysProtected ==
    \E i \in 1..Len(notes) :
        /\ notes[i].passwordHash = Hash(<<"n">>)
        /\ notes[i].updatedAt = 0
        /\ now = 1
        /\ \A u \in Updaters : upc[u] = "idle"

\* C29 (Fixed-window limiter invariant): in every step, for every limiter
\* and client key: a step without a request of the key leaves the key's
\* entry as it was, whatever the other keys send; a request of the key
\* sets the count to one more than the count of the window it falls into
\* (0 for a first request or one arriving strictly more than 60 000 ms
\* after lastReset), moves lastReset then and only then, and is admitted
\* exactly when the new count is within the quota; the count is the number
\* of requests since lastReset, admitted or rejected, of which at most the
\* quota (5 for Create, 10 for the others) was admitted.
FixedWindowLimiter ==
    [][\A route \in Routes, ip \in Ips :
            LET before == rateLimitStore[route][ip]
                after == rateLimitStore'[route][ip]
                calls == admissions'[route][ip]
                quota == MAX_REQUESTS_PER_WINDOW(route)
                expired ==
                    /\ before # Undefined
                    /\ now - before.lastReset > WINDOW_SIZE_MS
                window == {k \in 1..Len(calls) : calls[k].at >= after.lastReset}
            IN  IF Len(calls) = Len(admissions[route][ip])
                THEN after = before
                ELSE /\ after.count =
                            (IF before = Undefined \/ expired
                             THEN 0 ELSE before.count) + 1
                     /\ after.lastReset =
                            (IF before = Undefined \/ expired
                             THEN now ELSE before.lastReset)
                     /\ calls[Len(calls)].admitted <=> after.count <= quota
                     /\ Cardinality(window) = after.count
                     /\ Cardinality({k \in window : calls[k].admitted}) <= quota
      ]_vars

\* A client key was rejected by the limiter of Create while another key
\* was admitted at that time or later.
KeyRejectedBesideAnother ==
    \E ip \in Ips, other \in Ips :
        \E k \in 1..Len(admissions["notes"][ip]) :
            /\ other # ip
            /\ ~admissions["notes"][ip][k].admitted
            /\ \E call \in 1..Len(admissions["notes"][other]) :
                    /\ admissions["notes"][other][call].admitted
                    /\ admissions["notes"][other][call].at
                            >= admissions["notes"][ip][k].at

\* C30 (Retry-After is sufficient): the Retry-After of every rejected
\* request is a whole number of seconds from 0 to 60, and when the request
\* a client key sends next after a rejected one arrives that many seconds
\* after it or later, the limiter admits it.
RetryAfterSufficient ==
    [][\A route \in Routes, ip \in Ips :
            LET calls == admissions'[route][ip]
                last == Len(calls)
            IN  last = Len(admissions[route][ip]) + 1 =>
                    /\ ~calls[last].admitted =>
                            calls[last].retryAfter \in 0..(WINDOW_SIZE_MS \div 1000)
                    /\ ( /\ last > 1
                         /\ ~calls[last - 1].admitted
                         /\ calls[last].at - calls[last - 1].at
                                >= calls[last - 1].retryAfter * 1000 )
                            => calls[last].admitted
      ]_vars

====
